---- MODULE Spec2Model ----
(***************************************************************************)
(* Model of logiscan: the matching algorithm (utils/matchingAlgorithm.ts)  *)
(* and the session store with the photo-processing hook that drives it     *)
(* (stores/sessionStore.tsx, hooks/useAIDetection.ts).                     *)
(*                                                                         *)
(* SpecMatch applies matchDetections / rematchSingleDetection to every     *)
(* bounded input.  Spec is the session: reducer actions as the UI          *)
(* dispatches them, with several processPhoto runs in flight.              *)
(* SpecParse applies parsePackageList to every bounded text of manifest    *)
(* lines.  SpecEntry applies it to single entries and continuous lines,    *)
(* SpecMarked applies matchDetections to detections that already carry a   *)
(* status, SpecSave is the debounced auto-save of the session, SpecDelete  *)
(* deletes photos of a processed session.                                  *)
(***************************************************************************)
EXTENDS Naturals, Sequences, FiniteSets, TLC

\* ------------------------------------------------------------------ bounds
MaxPackages == 2
MaxDetections == 2
\* the session: processPhoto runs (one photo each), detections the oracle
\* returns for one photo, imports, review-card edits
MaxRuns == 2
MaxOracleDetections == 1
MaxImports == 2
MaxEdits == 1

\* ------------------------------------------------------------- data model
\* null / undefined of the source
Null == "<null>"

PackageStatus == {"pending", "found", "verified", "not_found"}
DetectionStatus == {"matched", "duplicate", "orphan", "unreadable", "ambiguous"}

\* Apartment codes and tracking tails.  Package apartments come from the
\* parser's /[A-Z]\d{2}[A-Z]/ and hold no ':'; a tracking tail is the last
\* four characters of any token, and a detection's fields are whatever the
\* oracle or the user typed.  The values are short stand-ins chosen so
\* that two different pairs format to one combo key.
PackageApartments == {"A"}
PackageLast4s == {"1", "1:1"}
ParsedApartments == {Null, "A", "A:1"}
ParsedLast4s == {Null, "1", "1:1"}

PackageIds == <<"p1", "p2", "p3", "p4", "p5", "p6">>
DetectionIds == <<"d1", "d2", "d3", "d4", "d5", "d6">>
PhotoIds == <<"ph1", "ph2", "ph3">>

\* Package: id, apartment, trackingLast4, status (the fields matching reads)
Package(i, a, l, s) ==
  [id |-> PackageIds[i], apartment |-> a, trackingLast4 |-> l, status |-> s]

\* the pixel box of a sticker
BoundingBox == [x |-> 10, y |-> 20, width |-> 30, height |-> 40]

\* confidence in percent: what the oracle reports for a sticker it is not
\* sure of (the review queue lists a detection below 90), and what a manual
\* correction or confirmation sets
OracleConfidence == 80
ManualConfidence == 100

\* Detection as useAIDetection creates it: status 'matched' as a placeholder,
\* matchedPackageId null
Detection(i, ph, a, l, n) ==
  [id |-> DetectionIds[i], photoId |-> ph, boundingBox |-> BoundingBox,
   parsedApartment |-> a, parsedLast4 |-> l, confidence |-> OracleConfidence,
   matchedPackageId |-> Null, status |-> "matched", notes |-> n]

\* ---------------------------------------------------------- matchDetections
\* `${apartment}:${last4}`
comboKey(a, l) == a \o ":" \o l

\* JavaScript's !x on a string | null: null and the empty string are falsy.
\* (Every producer of a detection turns '' into null: `det.apartment || null`
\* in the oracle clients, `apartment.trim() || null` in the review card.)
Falsy(x) == x = Null \/ x = ""

\* variant: unreadable only when both fields are missing
IsUnreadable_BothMissing(d) == Falsy(d.parsedApartment) /\ Falsy(d.parsedLast4)

\* !parsedApartment || !parsedLast4
IsUnreadable(d) == Falsy(d.parsedApartment) \/ Falsy(d.parsedLast4)

\* variant: only found packages seed the claimed set
IsClaiming_FoundOnly(pkg) == pkg.status = "found"

\* pkg.status === 'found' || pkg.status === 'verified'
IsClaiming(pkg) == pkg.status = "found" \/ pkg.status = "verified"

\* matchedCombos after the first forEach: the keys of found/verified packages
SeedCombos(pkgs) ==
  {comboKey(pkgs[i].apartment, pkgs[i].trackingLast4) :
     i \in {j \in DOMAIN pkgs : IsClaiming(pkgs[j])}}

\* variant: the filter compares the apartment only
MatchingPackages_ApartmentOnly(pkgs, d) ==
  {i \in DOMAIN pkgs :
     /\ pkgs[i].apartment = d.parsedApartment
     /\ pkgs[i].status = "pending"}

\* variant: the filter does not look at the package's status
MatchingPackages_AnyStatus(pkgs, d) ==
  {i \in DOMAIN pkgs :
     /\ pkgs[i].apartment = d.parsedApartment
     /\ pkgs[i].trackingLast4 = d.parsedLast4}

\* the filter: indices of the packages equal on both fields and pending
MatchingPackages(pkgs, d) ==
  {i \in DOMAIN pkgs :
     /\ pkgs[i].apartment = d.parsedApartment
     /\ pkgs[i].trackingLast4 = d.parsedLast4
     /\ pkgs[i].status = "pending"}

\* matchingPackages[0]: filter keeps the array's order
FirstOf(S) == CHOOSE i \in S : \A j \in S : i <= j

\* notes ? `${notes}. ${text}` : text
AppendNote(notes, text) ==
  IF Falsy(notes) THEN text ELSE notes \o ". " \o text

AmbiguousNote == "Multiple packages match this apartment and tracking number."
OrphanNote == "Sticker not found in imported package list."

\* variant: the match is written to the detection only
ApplyMatch_DetectionOnly(st, k, i) ==
  [st EXCEPT !.dets[k].status = "matched",
             !.dets[k].matchedPackageId = st.pkgs[i].id]

\* variant: matchedCombos.add(comboKey) is missing
ApplyMatch_NoCombo(st, k, i) ==
  [st EXCEPT !.pkgs[i].status = "found",
             !.dets[k].status = "matched",
             !.dets[k].matchedPackageId = st.pkgs[i].id]

\* variant: pkg.status = 'found' is missing
ApplyMatch_KeepsPending(st, k, i) ==
  [st EXCEPT !.dets[k].status = "matched",
             !.dets[k].matchedPackageId = st.pkgs[i].id,
             !.combos = @ \cup {comboKey(st.dets[k].parsedApartment,
                                         st.dets[k].parsedLast4)}]

\* Case 3: the package becomes found, the detection matched, the combo claimed
ApplyMatch(st, k, i) ==
  [pkgs |-> [st.pkgs EXCEPT ![i].status = "found"],
   dets |-> [st.dets EXCEPT ![k].status = "matched",
                            ![k].matchedPackageId = st.pkgs[i].id],
   combos |-> st.combos \cup
                {comboKey(st.dets[k].parsedApartment, st.dets[k].parsedLast4)}]

\* variant: with several matching packages the first one is taken
ProcessDetection_FirstOfMany(st, k) ==
  LET d == st.dets[k]
      m == MatchingPackages(st.pkgs, d)
  IN  IF IsUnreadable(d)
        THEN [st EXCEPT !.dets[k].status = "unreadable"]
      ELSE IF comboKey(d.parsedApartment, d.parsedLast4) \in st.combos
        THEN [st EXCEPT !.dets[k].status = "duplicate"]
      ELSE IF Cardinality(m) >= 1
        THEN ApplyMatch(st, k, FirstOf(m))
      ELSE [st EXCEPT !.dets[k].status = "orphan",
                      !.dets[k].notes = AppendNote(d.notes, OrphanNote)]

\* variant: an unreadable detection has both parsed fields cleared
ProcessDetection_ClearsUnreadable(st, k) ==
  LET d == st.dets[k]
      m == MatchingPackages(st.pkgs, d)
  IN  IF IsUnreadable(d)
        THEN [st EXCEPT !.dets[k].status = "unreadable",
                        !.dets[k].parsedApartment = Null,
                        !.dets[k].parsedLast4 = Null]
      ELSE IF comboKey(d.parsedApartment, d.parsedLast4) \in st.combos
        THEN [st EXCEPT !.dets[k].status = "duplicate"]
      ELSE IF Cardinality(m) = 1
        THEN ApplyMatch(st, k, FirstOf(m))
      ELSE IF Cardinality(m) > 1
        THEN [st EXCEPT !.dets[k].status = "ambiguous",
                        !.dets[k].notes = AppendNote(d.notes, AmbiguousNote)]
      ELSE [st EXCEPT !.dets[k].status = "orphan",
                      !.dets[k].notes = AppendNote(d.notes, OrphanNote)]

\* variant: a detection without a matching package is left as it came
ProcessDetection_NoOrphanCase(st, k) ==
  LET d == st.dets[k]
      m == MatchingPackages(st.pkgs, d)
  IN  IF IsUnreadable(d)
        THEN [st EXCEPT !.dets[k].status = "unreadable"]
      ELSE IF comboKey(d.parsedApartment, d.parsedLast4) \in st.combos
        THEN [st EXCEPT !.dets[k].status = "duplicate"]
      ELSE IF Cardinality(m) = 1
        THEN ApplyMatch(st, k, FirstOf(m))
      ELSE IF Cardinality(m) > 1
        THEN [st EXCEPT !.dets[k].status = "ambiguous",
                        !.dets[k].notes = AppendNote(d.notes, AmbiguousNote)]
      ELSE st

\* One iteration of updatedDetections.forEach on the loop state
\* st = [pkgs, dets, combos]
\* variant: a detection that enters unreadable is left as it is
ProcessDetection_KeepsMarked(st, k) ==
  LET d == st.dets[k]
      m == MatchingPackages(st.pkgs, d)
  IN  IF IsUnreadable(d) \/ d.status = "unreadable"
        THEN [st EXCEPT !.dets[k].status = "unreadable"]
      ELSE IF comboKey(d.parsedApartment, d.parsedLast4) \in st.combos
        THEN [st EXCEPT !.dets[k].status = "duplicate"]
      ELSE IF Cardinality(m) = 1
        THEN ApplyMatch(st, k, FirstOf(m))
      ELSE IF Cardinality(m) > 1
        THEN [st EXCEPT !.dets[k].status = "ambiguous",
                        !.dets[k].notes = AppendNote(d.notes, AmbiguousNote)]
      ELSE [st EXCEPT !.dets[k].status = "orphan",
                      !.dets[k].notes = AppendNote(d.notes, OrphanNote)]

ProcessDetection(st, k) ==
  LET d == st.dets[k]
      m == MatchingPackages(st.pkgs, d)
  IN  IF IsUnreadable(d)
        THEN [st EXCEPT !.dets[k].status = "unreadable"]
      ELSE IF comboKey(d.parsedApartment, d.parsedLast4) \in st.combos
        THEN [st EXCEPT !.dets[k].status = "duplicate"]
      ELSE IF Cardinality(m) = 1
        THEN ApplyMatch(st, k, FirstOf(m))
      ELSE IF Cardinality(m) > 1
        THEN [st EXCEPT !.dets[k].status = "ambiguous",
                        !.dets[k].notes = AppendNote(d.notes, AmbiguousNote)]
      ELSE [st EXCEPT !.dets[k].status = "orphan",
                      !.dets[k].notes = AppendNote(d.notes, OrphanNote)]

\* The loop state after the first k detections
RECURSIVE LoopState(_, _, _)
LoopState(pkgs, dets, k) ==
  IF k = 0
    THEN [pkgs |-> pkgs, dets |-> dets, combos |-> SeedCombos(pkgs)]
    ELSE ProcessDetection(LoopState(pkgs, dets, k - 1), k)

matchDetections(pkgs, dets) ==
  LET st == LoopState(pkgs, dets, Len(dets))
  IN  [updatedPackages |-> st.pkgs, updatedDetections |-> st.dets]

\* ------------------------------------------------- the objects of one call
\* The arrays of the source hold references.  A heap maps the name of an
\* array to the objects its elements refer to, so an object's address is
\* <<array name, index>>.  updatedPkg and updatedDet are the objects the call
\* creates.  (The call also copies each boundingBox; no statement writes to
\* a boundingBox, so a detection object holds it by value.)
ArgHeap(pkgs, dets) ==
  [pkg |-> pkgs, det |-> dets, updatedPkg |-> <<>>, updatedDet |-> <<>>]

\* variant: const updatedPackages = packages
CopyPackages_SameObjects(heap) == [heap |-> heap, array |-> "pkg"]

\* packages.map(pkg => ({ ...pkg })): the heap with the copies, and the
\* array that refers to them
CopyPackages(heap) ==
  [heap |-> [heap EXCEPT !.updatedPkg = heap.pkg], array |-> "updatedPkg"]

\* detections.map(det => ({ ...det, boundingBox: { ...det.boundingBox } }))
CopyDetections(heap) ==
  [heap |-> [heap EXCEPT !.updatedDet = heap.det], array |-> "updatedDet"]

\* The loop writes through the elements of updatedPackages and
\* updatedDetections only (pkg.status, detection.status, .matchedPackageId,
\* .notes): the heap after the loop has the loop's values in those objects.
WriteThrough(heap, pkgArray, detArray, st) ==
  [heap EXCEPT ![pkgArray] = st.pkgs, ![detArray] = st.dets]

\* the result, and the caller's arrays as they are after the call
CallResult(after, pkgArray, detArray) ==
  [updatedPackages |-> after[pkgArray],
   updatedDetections |-> after[detArray],
   packages |-> after.pkg,
   detections |-> after.det]

RunLoop(heap, pkgArray, detArray) ==
  CallResult(
    WriteThrough(heap, pkgArray, detArray,
                 LoopState(heap[pkgArray], heap[detArray], Len(heap[detArray]))),
    pkgArray, detArray)

WithDetections(cp, cd) == RunLoop(cd.heap, cp.array, cd.array)

WithPackages(cp) == WithDetections(cp, CopyDetections(cp.heap))

\* matchDetections on the caller's objects
matchDetectionsCall(pkgs, dets) ==
  WithPackages(CopyPackages(ArgHeap(pkgs, dets)))

\* rematchSingleDetection: the set of the other detections' combos is built
\* and then not passed on; the result is matchDetections on the one detection
rematchSingleDetection(pkgs, detection, allDetections) ==
  LET matchedCombos ==
        SeedCombos(pkgs) \cup
        {comboKey(allDetections[j].parsedApartment, allDetections[j].parsedLast4) :
           j \in {x \in DOMAIN allDetections :
                    /\ allDetections[x].id # detection.id
                    /\ allDetections[x].status \in {"matched", "duplicate"}
                    /\ ~IsUnreadable(allDetections[x])}}
      result == matchDetections(pkgs, <<detection>>)
  IN  [updatedPackages |-> result.updatedPackages,
       updatedDetection |-> result.updatedDetections[1]]

\* ------------------------------------------------------------------ inputs
PackageLists ==
  UNION {{[i \in 1..n |-> Package(i, f[i][1], f[i][2], f[i][3])] :
            f \in [1..n -> PackageApartments \X PackageLast4s \X PackageStatus]} :
         n \in 0..MaxPackages}

DetectionLists ==
  UNION {{[i \in 1..n |-> Detection(i, "ph1", f[i][1], f[i][2], Null)] :
            f \in [1..n -> ParsedApartments \X ParsedLast4s]} :
         n \in 0..MaxDetections}

\* ------------------------------------------------------------------- state
VARIABLES
  packages,           \* matchDetections' argument
  detections,         \* matchDetections' argument
  updatedPackages,    \* the call's result
  updatedDetections,
  single,             \* rematchSingleDetection's result, or Null
  singleOf,           \* the index in detections of the detection re-matched
  argsAfter,          \* the caller's arrays as they are after the call
  mpc,                \* "input" | "matched" | "rematched" | "single", or
                      \* "session", or "parser" | "parsed", or "autosave"
  state,              \* SessionState: packages, photos, detections
  runs,               \* the processPhoto runs, by number
  imports,            \* imports confirmed so far
  edits,              \* review-card edits so far
  rawText,            \* parsePackageList's argument
  parseResult,        \* the call's result, or Null
  saver               \* the auto-save: timers, timeoutRef, localStorage

mvars == <<packages, detections, updatedPackages, updatedDetections, single,
           singleOf, argsAfter, mpc>>

svars == <<state, runs, imports, edits>>

pvars == <<rawText, parseResult>>

vars == <<mvars, svars, pvars, saver>>

\* createInitialState()
createInitialState == [packages |-> <<>>, photos |-> <<>>, detections |-> <<>>]

IdleRun ==
  [pc |-> "idle", packages |-> <<>>, detections |-> <<>>, produced |-> {},
   found |-> {}]

SessionFresh ==
  /\ state = createInitialState
  /\ runs = [r \in 1..MaxRuns |-> IdleRun]
  /\ imports = 0
  /\ edits = 0

\* ---------------------------------------------------------------- auto-save
\* useDebounce(callback, 300): the delay in milliseconds
SaveDelay == 300

\* SessionProvider before its first effect: no timer was started,
\* timeoutRef.current is undefined (0: timer ids start at 1), localStorage
\* holds no session (stored is the set of the sessions it holds: none or
\* one).  quiet is the time in milliseconds since the state changed last (up
\* to SaveDelay), changes and saves count the state changes and the
\* saveSession calls.
NotMounted ==
  [timers |-> {}, timeoutRef |-> 0, nextId |-> 1, stored |-> {},
   quiet |-> 0, changes |-> 0, saves |-> 0]

\* clearTimeout(id)
clearTimeout(sv, id) == [sv EXCEPT !.timers = {t \in @ : t.id # id}]

\* if (timeoutRef.current) clearTimeout(timeoutRef.current)
ClearPending(sv) ==
  IF sv.timeoutRef # 0 THEN clearTimeout(sv, sv.timeoutRef) ELSE sv

\* timeoutRef.current = setTimeout(() => callback(...args), delay)
StartTimer(sv, args, delay) ==
  [sv EXCEPT
     !.timers = @ \cup {[id |-> sv.nextId, args |-> args, remaining |-> delay]},
     !.timeoutRef = sv.nextId,
     !.nextId = @ + 1]

\* variant: the pending timer is not cleared
debouncedSave_NoClear(sv, sessionState) ==
  StartTimer(sv, sessionState, SaveDelay)

\* the function useDebounce returns, called by the effect with the state
debouncedSave(sv, sessionState) ==
  StartTimer(ClearPending(sv), sessionState, SaveDelay)

\* SessionProvider after its first render: the effect has run once
Mounted == debouncedSave(NotMounted, createInitialState)

\* no parsePackageList call is under way
ParserIdle == rawText = "" /\ parseResult = Null

MatchInit ==
  /\ SessionFresh
  /\ saver = Mounted
  /\ ParserIdle
  /\ packages \in PackageLists
  /\ detections \in DetectionLists
  /\ updatedPackages = <<>>
  /\ updatedDetections = <<>>
  /\ single = Null
  /\ singleOf = Null
  /\ argsAfter = Null
  /\ mpc = "input"

\* matchDetections(packages, detections)
Match ==
  /\ mpc = "input"
  /\ LET r == matchDetectionsCall(packages, detections)
     IN  /\ updatedPackages' = r.updatedPackages
         /\ updatedDetections' = r.updatedDetections
         /\ argsAfter' = [packages |-> r.packages, detections |-> r.detections]
  /\ mpc' = "matched"
  /\ UNCHANGED <<packages, detections, single, singleOf, svars, pvars, saver>>

\* matchDetections again on the result of the call before, as processPhoto
\* and the review card do with state.packages / state.detections
Rematch ==
  /\ mpc = "matched"
  /\ packages' = updatedPackages
  /\ detections' = updatedDetections
  /\ LET r == matchDetectionsCall(updatedPackages, updatedDetections)
     IN  /\ updatedPackages' = r.updatedPackages
         /\ updatedDetections' = r.updatedDetections
         /\ argsAfter' = [packages |-> r.packages, detections |-> r.detections]
  /\ mpc' = "rematched"
  /\ UNCHANGED <<single, singleOf, svars, pvars, saver>>

\* rematchSingleDetection(packages, detections[k], detections)
RematchSingle ==
  /\ mpc = "matched"
  /\ \E k \in DOMAIN detections :
       /\ single' = rematchSingleDetection(packages, detections[k], detections)
       /\ singleOf' = k
  /\ mpc' = "single"
  /\ UNCHANGED <<packages, detections, updatedPackages, updatedDetections,
                 argsAfter, svars, pvars, saver>>

MatchNext == Match \/ Rematch \/ RematchSingle

SpecMatch == MatchInit /\ [][MatchNext]_vars

\* Detections as a later call meets them: each with the status an earlier
\* pass or the review card left on it
MarkedReadings == {<<"A", "1">>, <<Null, "1">>}

MarkedDetectionLists ==
  UNION {{[i \in 1..n |->
             [Detection(i, "ph1", f[i][1][1], f[i][1][2], Null)
                EXCEPT !.status = f[i][2]]] :
            f \in [1..n -> MarkedReadings \X DetectionStatus]} :
         n \in 0..MaxDetections}

MarkedInit ==
  /\ SessionFresh
  /\ saver = Mounted
  /\ ParserIdle
  /\ packages \in PackageLists
  /\ detections \in MarkedDetectionLists
  /\ updatedPackages = <<>>
  /\ updatedDetections = <<>>
  /\ single = Null
  /\ singleOf = Null
  /\ argsAfter = Null
  /\ mpc = "input"

SpecMarked == MarkedInit /\ [][Match]_vars

\* ----------------------------------------------------------- sessionReducer
\* case 'SET_PACKAGES'
SET_PACKAGES(s, pkgs) == [s EXCEPT !.packages = pkgs]

\* case 'ADD_PHOTO'
ADD_PHOTO(s, photo) == [s EXCEPT !.photos = Append(@, photo)]

\* case 'ADD_DETECTIONS': the photo gets the detections and is marked
\* processed; the flattened list gets them appended
ADD_DETECTIONS(s, photoId, dets) ==
  [s EXCEPT
     !.photos = [i \in DOMAIN @ |->
                   IF @[i].id = photoId
                     THEN [@[i] EXCEPT !.detections = dets, !.processed = TRUE]
                     ELSE @[i]],
     !.detections = @ \o dets]

\* det.id === action.detection.id ? action.detection : det
ReplaceById(dets, d) ==
  [i \in DOMAIN dets |-> IF dets[i].id = d.id THEN d ELSE dets[i]]

\* case 'UPDATE_DETECTION'
UPDATE_DETECTION(s, d) ==
  [s EXCEPT
     !.detections = ReplaceById(@, d),
     !.photos = [i \in DOMAIN @ |->
                   [@[i] EXCEPT !.detections = ReplaceById(@, d)]]]

\* action.detections.find(d => d.id === det.id) || det
FindOr(dets, det) ==
  IF \E j \in DOMAIN dets : dets[j].id = det.id
    THEN dets[FirstOf({j \in DOMAIN dets : dets[j].id = det.id})]
    ELSE det

\* case 'UPDATE_PACKAGES_AND_DETECTIONS'
UPDATE_PACKAGES_AND_DETECTIONS(s, pkgs, dets) ==
  [s EXCEPT
     !.packages = pkgs,
     !.detections = dets,
     !.photos = [i \in DOMAIN @ |->
                   [@[i] EXCEPT !.detections =
                      [j \in DOMAIN @ |-> FindOr(dets, @[j])]]]]

\* a DELETE_PHOTO that also gives up what the photo's detections had claimed:
\* the packages its matched detections name go back to pending
DELETE_PHOTO_RevertsPackages(s, photoId) ==
  LET KeepPhoto(p) == p.id # photoId
      KeepDetection(d) == d.photoId # photoId
      Named == {s.detections[k].matchedPackageId :
                  k \in {j \in DOMAIN s.detections :
                           /\ s.detections[j].photoId = photoId
                           /\ s.detections[j].status = "matched"}}
  IN  [s EXCEPT !.photos = SelectSeq(@, KeepPhoto),
                !.detections = SelectSeq(@, KeepDetection),
                !.packages = [i \in DOMAIN @ |->
                                IF @[i].id \in Named
                                  THEN [@[i] EXCEPT !.status = "pending"]
                                  ELSE @[i]]]

\* case 'DELETE_PHOTO'
DELETE_PHOTO(s, photoId) ==
  LET KeepPhoto(p) == p.id # photoId
      KeepDetection(d) == d.photoId # photoId
  IN  [s EXCEPT !.photos = SelectSeq(@, KeepPhoto),
                !.detections = SelectSeq(@, KeepDetection)]

\* --------------------------------------------------------------- the UI
\* What parsePackageList hands to SET_PACKAGES: pending packages with fresh
\* ids, no two of one (apartment, trackingLast4), at least one package
ImportCombos == PackageApartments \X PackageLast4s

ImportLists(base) ==
  UNION {{[i \in 1..n |-> Package(base + i, f[i][1], f[i][2], "pending")] :
            f \in {g \in [1..n -> ImportCombos] :
                     \A x, y \in 1..n : g[x] = g[y] => x = y}} :
         n \in 1..Cardinality(ImportCombos)}

\* ImportPanel.handleConfirmImport
ConfirmImport ==
  /\ imports < MaxImports
  /\ \E pkgs \in ImportLists(imports * Cardinality(ImportCombos)) :
       state' = SET_PACKAGES(state, pkgs)
  /\ imports' = imports + 1
  /\ UNCHANGED <<runs, edits, mvars, pvars, saver>>

\* CameraPanel.handleFileUpload: the handler of the current render starts
\* reading the file; its onload callback holds this render's processPhoto,
\* which holds this render's state.packages and state.detections
SelectFile(r) ==
  /\ runs[r].pc = "idle"
  /\ r > 1 => runs[r - 1].pc # "idle"
  /\ runs' = [runs EXCEPT ![r] = [@ EXCEPT !.pc = "reading",
                                            !.packages = state.packages,
                                            !.detections = state.detections]]
  /\ UNCHANGED <<state, imports, edits, mvars, pvars, saver>>

\* reader.onload: addPhoto(photo), then processPhoto up to its await
FileLoaded(r) ==
  /\ runs[r].pc = "reading"
  /\ state' = ADD_PHOTO(state, [id |-> PhotoIds[r], processed |-> FALSE,
                                detections |-> <<>>])
  /\ runs' = [runs EXCEPT ![r].pc = "awaiting"]
  /\ UNCHANGED <<imports, edits, mvars, pvars, saver>>

\* What the oracle reads off one photo
OracleReadings == {<<"A", "1">>, <<"A", "1:1">>, <<Null, "1">>}

OracleResponses ==
  UNION {[1..n -> OracleReadings] : n \in 0..MaxOracleDetections}

\* the ids uuidv4() has handed out to detections so far
DetectionsCreated ==
  Cardinality(UNION {runs[r].produced : r \in DOMAIN runs})

\* the packages a match result turned found
FoundIn(before, after) ==
  {before[i].id : i \in {j \in DOMAIN before :
                           before[j].status # "found" /\ after[j].status = "found"}}

\* processPhoto after the await: the response becomes Detection objects,
\* addDetections(photoId, detections), matchDetections on the closure's
\* packages and detections with the new ones appended, and
\* updatePackagesAndDetections of its result
OracleReturns(r) ==
  /\ runs[r].pc = "awaiting"
  /\ \E resp \in OracleResponses :
       LET base == DetectionsCreated
           dets == [i \in DOMAIN resp |->
                      Detection(base + i, PhotoIds[r], resp[i][1], resp[i][2], Null)]
           added == ADD_DETECTIONS(state, PhotoIds[r], dets)
           matchResult == matchDetections(runs[r].packages,
                                          runs[r].detections \o dets)
       IN  /\ state' = UPDATE_PACKAGES_AND_DETECTIONS(
                         added, matchResult.updatedPackages,
                         matchResult.updatedDetections)
           /\ runs' = [runs EXCEPT
                         ![r].pc = "done",
                         ![r].produced = {dets[i].id : i \in DOMAIN dets},
                         ![r].found = FoundIn(runs[r].packages,
                                              matchResult.updatedPackages)]
  /\ UNCHANGED <<imports, edits, mvars, pvars, saver>>

\* processPhoto: no API key, or the oracle call throws; nothing is dispatched
OracleFails(r) ==
  /\ runs[r].pc = "awaiting"
  /\ runs' = [runs EXCEPT ![r].pc = "failed"]
  /\ UNCHANGED <<state, imports, edits, mvars, pvars, saver>>

\* PhotoThumbnails.handleDelete, confirmed
DeletePhoto ==
  /\ \E i \in DOMAIN state.photos :
       state' = DELETE_PHOTO(state, state.photos[i].id)
  /\ UNCHANGED <<runs, imports, edits, mvars, pvars, saver>>

\* (detection.notes || '') + text
ConcatNote(notes, text) == IF Falsy(notes) THEN text ELSE notes \o text

\* ReviewCard.handleMarkAsError on a detection of the review queue
MarkAsError ==
  /\ edits < MaxEdits
  /\ \E k \in DOMAIN state.detections :
       state' = UPDATE_DETECTION(state,
                  [state.detections[k] EXCEPT
                     !.status = "unreadable",
                     !.notes = ConcatNote(@, " [Marked as error by user]")])
  /\ edits' = edits + 1
  /\ UNCHANGED <<runs, imports, mvars, pvars, saver>>

\* ReviewCard.handleConfirmCorrect on a detection of the review queue
ConfirmCorrect ==
  /\ edits < MaxEdits
  /\ \E k \in DOMAIN state.detections :
       state' = UPDATE_DETECTION(state,
                  [state.detections[k] EXCEPT
                     !.confidence = ManualConfidence,
                     !.notes = ConcatNote(@, " [Verified by user]")])
  /\ edits' = edits + 1
  /\ UNCHANGED <<runs, imports, mvars, pvars, saver>>

\* String.prototype.trim
Whitespace == {" ", "\t", "\n"}

RECURSIVE TrimStart(_)
TrimStart(str) ==
  IF Len(str) > 0 /\ SubSeq(str, 1, 1) \in Whitespace
    THEN TrimStart(SubSeq(str, 2, Len(str)))
    ELSE str

RECURSIVE TrimEnd(_)
TrimEnd(str) ==
  IF Len(str) > 0 /\ SubSeq(str, Len(str), Len(str)) \in Whitespace
    THEN TrimEnd(SubSeq(str, 1, Len(str) - 1))
    ELSE str

Trim(str) == TrimEnd(TrimStart(str))

\* x || ''  and  x || null
OrEmpty(x) == IF Falsy(x) THEN "" ELSE x
OrNull(x) == IF Falsy(x) THEN Null ELSE x

\* What the user leaves in a field of the card: the text it showed, or
\* a text typed over it
TypedApartments == {"", "A", " A "}
TypedTrackings == {"", "1"}
TypedNotes == {"", "checked by hand"}

\* ReviewCard.handleSave on a detection of the review queue: the fields of
\* the card replace the detection's, updateDetection, matchDetections over
\* state.packages and state.detections with the detection replaced, and
\* updatePackagesAndDetections of its result
SaveCorrection ==
  /\ edits < MaxEdits
  /\ \E k \in DOMAIN state.detections :
       LET detection == state.detections[k]
       IN  \E apartment \in TypedApartments \cup {OrEmpty(detection.parsedApartment)},
              tracking \in TypedTrackings \cup {OrEmpty(detection.parsedLast4)},
              notes \in TypedNotes \cup {OrEmpty(detection.notes)} :
             LET updatedDetection ==
                   [detection EXCEPT
                      !.parsedApartment = OrNull(Trim(apartment)),
                      !.parsedLast4 = OrNull(Trim(tracking)),
                      !.notes = IF Falsy(Trim(notes)) THEN detection.notes
                                                      ELSE Trim(notes),
                      !.confidence = ManualConfidence]
                 allDetections == ReplaceById(state.detections, updatedDetection)
                 matchResult == matchDetections(state.packages, allDetections)
             IN  state' = UPDATE_PACKAGES_AND_DETECTIONS(
                            UPDATE_DETECTION(state, updatedDetection),
                            matchResult.updatedPackages,
                            matchResult.updatedDetections)
  /\ edits' = edits + 1
  /\ UNCHANGED <<runs, imports, mvars, pvars, saver>>

Init ==
  /\ SessionFresh
  /\ saver = Mounted
  /\ ParserIdle
  /\ packages = <<>>
  /\ detections = <<>>
  /\ updatedPackages = <<>>
  /\ updatedDetections = <<>>
  /\ single = Null
  /\ singleOf = Null
  /\ argsAfter = Null
  /\ mpc = "session"

Next ==
  \/ ConfirmImport
  \/ \E r \in 1..MaxRuns : SelectFile(r)
  \/ \E r \in 1..MaxRuns : FileLoaded(r)
  \/ \E r \in 1..MaxRuns : OracleReturns(r)
  \/ \E r \in 1..MaxRuns : OracleFails(r)
  \/ DeletePhoto
  \/ MarkAsError
  \/ ConfirmCorrect
  \/ SaveCorrection

Spec == Init /\ [][Next]_vars

\* ------------------------------------------- deleting photos of a session
\* One photo taken and processed with nothing else in between: addPhoto,
\* then processPhoto on the packages and detections of the render that
\* started it, which are the session's
TakePhoto(ses, r, resp) ==
  LET s == ses.state
      base == Cardinality(UNION {ses.runs[q].produced : q \in DOMAIN ses.runs})
      dets == [i \in DOMAIN resp |->
                 Detection(base + i, PhotoIds[r], resp[i][1], resp[i][2], Null)]
      withPhoto == ADD_PHOTO(s, [id |-> PhotoIds[r], processed |-> FALSE,
                                 detections |-> <<>>])
      added == ADD_DETECTIONS(withPhoto, PhotoIds[r], dets)
      matchResult == matchDetections(s.packages, s.detections \o dets)
  IN  [state |-> UPDATE_PACKAGES_AND_DETECTIONS(
                   added, matchResult.updatedPackages,
                   matchResult.updatedDetections),
       runs |-> [ses.runs EXCEPT
                   ![r] = [pc |-> "done",
                           packages |-> s.packages,
                           detections |-> s.detections,
                           produced |-> {dets[i].id : i \in DOMAIN dets},
                           found |-> FoundIn(s.packages,
                                             matchResult.updatedPackages)]]]

\* An imported list and then n photos, one after another
RECURSIVE PhotosTaken(_, _, _)
PhotosTaken(pkgs, resps, n) ==
  IF n = 0
    THEN [state |-> SET_PACKAGES(createInitialState, pkgs),
          runs |-> [r \in 1..MaxRuns |-> IdleRun]]
    ELSE TakePhoto(PhotosTaken(pkgs, resps, n - 1), n, resps[n])

\* The session after an import and up to MaxRuns photos; the thumbnails
\* strip is what acts on it
DeleteInit ==
  /\ \E pkgs \in ImportLists(0), n \in 0..MaxRuns :
       \E resps \in [1..n -> OracleResponses] :
         LET ses == PhotosTaken(pkgs, resps, n)
         IN  /\ state = ses.state
             /\ runs = ses.runs
  /\ imports = 1
  /\ edits = 0
  /\ saver = Mounted
  /\ ParserIdle
  /\ packages = <<>>
  /\ detections = <<>>
  /\ updatedPackages = <<>>
  /\ updatedDetections = <<>>
  /\ single = Null
  /\ singleOf = Null
  /\ argsAfter = Null
  /\ mpc = "session"

SpecDelete == DeleteInit /\ [][DeletePhoto]_vars

\* ------------------------------------------------- the auto-save at work
MaxChanges == 3

\* case 'CLEAR_SESSION'
CLEAR_SESSION(s) == createInitialState

\* the states a dispatch to the reducer can lead to
Dispatches(s) ==
  {SET_PACKAGES(s, pkgs) : pkgs \in ImportLists(0)}
    \cup {ADD_PHOTO(s, [id |-> PhotoIds[Len(s.photos) + 1],
                        processed |-> FALSE, detections |-> <<>>]) :
            x \in {y \in {1} : Len(s.photos) < MaxRuns}}
    \cup {DELETE_PHOTO(s, s.photos[i].id) : i \in DOMAIN s.photos}
    \cup {CLEAR_SESSION(s)}

\* A dispatch changes the state; SessionProvider renders and the effect
\* useEffect(() => debouncedSave(state), [state, debouncedSave]) runs.
StateChange ==
  /\ saver.changes < MaxChanges
  /\ \E next \in Dispatches(state) :
       /\ state' = next
       /\ saver' = [debouncedSave(saver, next) EXCEPT
                      !.quiet = 0, !.changes = @ + 1]
  /\ UNCHANGED <<runs, imports, edits, mvars, pvars>>

\* the time in milliseconds that passes between two events
Elapses == {100, 200}

AtLeastZero(n, d) == IF n > d THEN n - d ELSE 0
AtMost(n, most) == IF n < most THEN n ELSE most

\* d milliseconds pass
TimePasses ==
  /\ \/ saver.quiet < SaveDelay
     \/ \E t \in saver.timers : t.remaining > 0
  /\ \E d \in Elapses :
       saver' = [saver EXCEPT
                   !.timers = {[t EXCEPT !.remaining = AtLeastZero(@, d)] :
                                 t \in @},
                   !.quiet = AtMost(@ + d, SaveDelay)]
  /\ UNCHANGED <<svars, mvars, pvars>>

\* a timer whose delay has passed calls back: saveSession(sessionState)
\* writes its argument to localStorage
TimerFires ==
  /\ \E t \in saver.timers :
       /\ t.remaining = 0
       /\ saver' = [saver EXCEPT !.timers = @ \ {t},
                                 !.stored = {t.args},
                                 !.saves = @ + 1]
  /\ UNCHANGED <<svars, mvars, pvars>>

SaveInit ==
  /\ SessionFresh
  /\ saver = Mounted
  /\ ParserIdle
  /\ packages = <<>>
  /\ detections = <<>>
  /\ updatedPackages = <<>>
  /\ updatedDetections = <<>>
  /\ single = Null
  /\ singleOf = Null
  /\ argsAfter = Null
  /\ mpc = "autosave"

SaveNext == StateChange \/ TimePasses \/ TimerFires

\* time passes, and the event loop runs a timer that is due
SpecSave ==
  SaveInit /\ [][SaveNext]_vars /\ WF_vars(TimePasses) /\ WF_vars(TimerFires)

\* ----------------------------------------------------------- parsePackageList
\* Strings are the source's strings; positions count from 1.  A value that
\* the source holds in a const and reads several times is handed on as an
\* operator argument.

\* str.charAt(i - 1): '' outside the string
CharAt(str, i) == IF i >= 1 /\ i <= Len(str) THEN SubSeq(str, i, i) ELSE ""

\* str.substring(a - 1, b), b clamped to the length
Slice(str, a, b) == SubSeq(str, a, IF b > Len(str) THEN Len(str) ELSE b)

\* str.substring(i - 1): the text from position i on
From(str, i) == IF i > Len(str) THEN "" ELSE SubSeq(str, i, Len(str))

IsSpace(c) == c \in Whitespace

Digits == {"0", "1", "2", "3", "4", "5", "6", "7", "8", "9"}

UpperCase == "ABCDEFGHIJKLMNOPQRSTUVWXYZ"
LowerCase == "abcdefghijklmnopqrstuvwxyz"

IsLetter(c) ==
  \E i \in 1..Len(UpperCase) : c = CharAt(UpperCase, i) \/ c = CharAt(LowerCase, i)

ToUpperChar(c) ==
  IF \E i \in 1..Len(LowerCase) : c = CharAt(LowerCase, i)
    THEN CharAt(UpperCase, CHOOSE i \in 1..Len(LowerCase) : c = CharAt(LowerCase, i))
    ELSE c

\* String.prototype.toUpperCase
RECURSIVE toUpperCase(_)
toUpperCase(str) ==
  IF str = "" THEN "" ELSE ToUpperChar(CharAt(str, 1)) \o toUpperCase(From(str, 2))

\* the smallest member of a set of positions, 0 for the empty set
LeastOrZero(S) == IF S = {} THEN 0 ELSE CHOOSE i \in S : \A j \in S : i <= j

\* str.indexOf(sub) + 1: the first position of sub in str, 0 when absent
IndexOf(str, sub) ==
  LeastOrZero({i \in 1..(Len(str) + 1 - Len(sub)) :
                 SubSeq(str, i, i + Len(sub) - 1) = sub})

\* str.split(sep) for a non-empty string separator
RECURSIVE Split(_, _)
SplitAt(str, sep, i) ==
  IF i = 0 THEN <<str>>
  ELSE <<SubSeq(str, 1, i - 1)>> \o Split(From(str, i + Len(sep)), sep)

Split(str, sep) == SplitAt(str, sep, IndexOf(str, sep))

\* the first position at or after i that holds no whitespace (Len + 1 at the end)
RECURSIVE SkipSpace(_, _)
SkipSpace(str, i) ==
  IF i <= Len(str) /\ IsSpace(CharAt(str, i)) THEN SkipSpace(str, i + 1) ELSE i

\* str.split(/\s+/) with least = 1, str.split(/\s{2,}/) with least = 2: the
\* text is cut at each maximal run of at least `least` whitespace characters
RECURSIVE SplitOnSpaces(_, _)
CutAtSpaces(str, least, i) ==
  IF i = 0 THEN <<str>>
  ELSE <<SubSeq(str, 1, i - 1)>>
         \o SplitOnSpaces(From(str, SkipSpace(str, i)), least)

SplitOnSpaces(str, least) ==
  CutAtSpaces(str, least,
              LeastOrZero({i \in 1..Len(str) :
                             /\ IsSpace(CharAt(str, i))
                             /\ SkipSpace(str, i) - i >= least}))

\* tokens.join(' ')
RECURSIVE Join(_)
Join(words) ==
  IF words = <<>> THEN ""
  ELSE IF Len(words) = 1 THEN words[1]
  ELSE words[1] \o " " \o Join(Tail(words))

\* /\s+-\s+(#\d+)/ matches at position i: whitespace up to dash, '-',
\* whitespace up to hash, '#', a digit
HashAt(str, dash, hash) ==
  /\ hash > dash + 1
  /\ CharAt(str, hash) = "#"
  /\ CharAt(str, hash + 1) \in Digits

DashAt(str, i, dash) ==
  /\ dash > i
  /\ CharAt(str, dash) = "-"
  /\ HashAt(str, dash, SkipSpace(str, dash + 1))

CarrierRefAt(str, i) == DashAt(str, i, SkipSpace(str, i))

\* trimmedLine.match(carrierRefPattern).index + 1, 0 when there is no match
CarrierRefIndex(str) ==
  LeastOrZero({i \in 1..Len(str) : CarrierRefAt(str, i)})

\* /^([A-Z]\d{2}[A-Z])/i matches
HasApartment(str) ==
  /\ IsLetter(CharAt(str, 1))
  /\ CharAt(str, 2) \in Digits
  /\ CharAt(str, 3) \in Digits
  /\ IsLetter(CharAt(str, 4))

\* apartmentMatch[1].toUpperCase()
ApartmentOf(str) == toUpperCase(Slice(str, 1, 4))

\* afterApartment.replace(/^Unit\s+/i, '')
WithoutUnit(str) ==
  IF toUpperCase(Slice(str, 1, 4)) = "UNIT" /\ IsSpace(CharAt(str, 5))
    THEN From(str, SkipSpace(str, 5))
    ELSE str

\* the outcome of one line: a package or an error
ParsedPackage(apartment, trackingLast4, carrier, recipient, fullTracking) ==
  [kind |-> "package", apartment |-> apartment, trackingLast4 |-> trackingLast4,
   carrier |-> carrier, recipient |-> recipient, fullTracking |-> fullTracking]

LineError(reason) == [kind |-> "error", reason |-> reason]

\* the line cut down to the apartment and the carrier/tracking field
Segmented(apartment, carrierTrackingField) ==
  [kind |-> "fields", apartment |-> apartment,
   carrierTrackingField |-> carrierTrackingField]

\* carrierTrackingPart: fromCarrierRef up to its first tab
UpToTab(fromCarrierRef, tabIndex) ==
  IF tabIndex # 0 THEN Trim(SubSeq(fromCarrierRef, 1, tabIndex - 1))
                  ELSE fromCarrierRef

\* the carrier is the last word before the anchor
AnchorCarrier(apartment, words, carrierTrackingPart) ==
  IF Len(words) < 2
    THEN LineError("Could not identify carrier name")
    ELSE Segmented(apartment, words[Len(words)] \o " " \o carrierTrackingPart)

AnchorFields(beforeCarrierRef, fromCarrierRef) ==
  IF ~HasApartment(beforeCarrierRef)
    THEN LineError("No valid apartment code found at start of line (expected format: C##L, N##L, etc.)")
    ELSE AnchorCarrier(
           ApartmentOf(beforeCarrierRef),
           SplitOnSpaces(Trim(WithoutUnit(Trim(From(beforeCarrierRef, 5)))), 1),
           UpToTab(fromCarrierRef, IndexOf(fromCarrierRef, "\t")))

\* the branch of a line that holds the " - #digits" anchor at position index
FieldsByAnchor(trimmedLine, index) ==
  AnchorFields(SubSeq(trimmedLine, 1, index - 1), Trim(From(trimmedLine, index)))

\* fields.map(f => f.trim())
TrimEach(fields) == [i \in DOMAIN fields |-> Trim(fields[i])]

SeparatedFields(fields) ==
  IF Len(fields) < 3
    THEN LineError("Insufficient fields - found " \o ToString(Len(fields))
                   \o ", expected at least 3 (apartment, entity, carrier/tracking)")
  ELSE IF ~HasApartment(fields[1])
    THEN LineError("No valid apartment code found in \"" \o fields[1]
                   \o "\" (expected format: C##L, N##L, etc. - any letter + 2 digits + letter)")
  ELSE Segmented(ApartmentOf(fields[1]), fields[3])

\* the fallback branch: split on tabs if there is one, else on runs of 2+
\* whitespace characters
FieldsBySeparator(trimmedLine) ==
  SeparatedFields(TrimEach(IF IndexOf(trimmedLine, "\t") # 0
                             THEN Split(trimmedLine, "\t")
                             ELSE SplitOnSpaces(trimmedLine, 2)))

\* if (carrierRefMatch && carrierRefMatch.index !== undefined) ... else ...
SegmentAt(trimmedLine, index) ==
  IF index # 0
    THEN FieldsByAnchor(trimmedLine, index)
    ELSE FieldsBySeparator(trimmedLine)

\* the anchor is looked for first; tabs and runs of spaces are the fallback
SegmentLine(trimmedLine) == SegmentAt(trimmedLine, CarrierRefIndex(trimmedLine))

\* str holds /word/i at position i: the position after it, 0 when it does not
AfterWord(str, i, word) ==
  IF toUpperCase(Slice(str, i, i + Len(word) - 1)) = word
    THEN i + Len(word) ELSE 0

FirstNonZero(a, b) == IF a # 0 THEN a ELSE b

\* (?:TRACKING|TRK) at position kw, reached over whitespace from position 3
KeywordAt(str, kw) ==
  IF kw = 3 THEN 0
  ELSE FirstNonZero(AfterWord(str, kw, "TRACKING"), AfterWord(str, kw, "TRK"))

\* the position after /^NO\s+(?:TRACKING|TRK)/i, 0 when it does not match
AfterNoTracking(str) ==
  IF AfterWord(str, 1, "NO") = 0 THEN 0 ELSE KeywordAt(str, SkipSpace(str, 3))

\* /^(NO\s+TRACKING|NO\s+TRK|NO\s+TRACKING\s+NUMBER)/i.test
IsNoTracking(str) == AfterNoTracking(str) # 0

\* the position after /(?:\s+NUMBER)/i from position i, 0 when it does not
\* match
AfterNumber(str, i) ==
  IF i = 0 \/ SkipSpace(str, i) = i THEN 0
  ELSE AfterWord(str, SkipSpace(str, i), "NUMBER")

\* the first position at or after i that holds neither '-' nor whitespace
RECURSIVE SkipDashSpace(_, _)
SkipDashSpace(str, i) ==
  IF i <= Len(str) /\ (IsSpace(CharAt(str, i)) \/ CharAt(str, i) = "-")
    THEN SkipDashSpace(str, i + 1) ELSE i

\* the separators took all they could, up to position r: when nothing is
\* left for (.+) they give back one character
GroupTwoAt(str, i, r) ==
  IF r <= Len(str) THEN r
  ELSE IF Len(str) > i THEN Len(str)
  ELSE 0

\* /\s+[-\s]*(.+)/ from position i: where group 2 starts, 0 when it does
\* not match
RecipientStart(str, i) ==
  IF i = 0 \/ ~IsSpace(CharAt(str, i)) THEN 0
  ELSE GroupTwoAt(str, i, SkipDashSpace(str, i))

\* <<group 1, group 2>> of the match, <<>> when there is none: with
\* "NUMBER" in group 1 if the rest then matches, else without it
NoTrackGroups(str, kw, num, afterNum, afterKw) ==
  IF afterNum # 0 THEN <<SubSeq(str, 1, num - 1), From(str, afterNum)>>
  ELSE IF afterKw # 0 THEN <<SubSeq(str, 1, kw - 1), From(str, afterKw)>>
  ELSE <<>>

NoTrackMatchFrom(str, kw, num) ==
  NoTrackGroups(str, kw, num, RecipientStart(str, num), RecipientStart(str, kw))

NoTrackMatchAt(str, kw) == NoTrackMatchFrom(str, kw, AfterNumber(str, kw))

\* trackingAndRecipient.match(/^(NO\s+(?:TRACKING|TRK)(?:\s+NUMBER)?)\s+[-\s]*(.+)/i)
NoTrackMatch(str) == NoTrackMatchAt(str, AfterNoTracking(str))

\* the "NO TRACKING" branch
NoTracking(apartment, carrier, trackingAndRecipient, noTrackMatch) ==
  IF noTrackMatch # <<>> /\ Trim(noTrackMatch[2]) # ""
    THEN ParsedPackage(apartment, "NONE", carrier, Trim(noTrackMatch[2]),
                       Trim(noTrackMatch[1]))
    ELSE ParsedPackage(apartment, "NONE", carrier, "UNKNOWN",
                       Trim(trackingAndRecipient))

\* fullTracking.slice(-4)
LastFour(str) == SubSeq(str, Len(str) - 3, Len(str))

\* the normal branch: the first token is the tracking number, the rest the
\* recipient
NormalTracking(apartment, carrier, tokens) ==
  IF Len(tokens) < 2
    THEN LineError("Could not separate tracking number from recipient name")
  ELSE IF Len(tokens[1]) < 4
    THEN LineError("Tracking number too short (need at least 4 characters)")
  ELSE ParsedPackage(apartment, LastFour(tokens[1]), carrier,
                     Join(Tail(tokens)), tokens[1])

TrackingAndRecipient(apartment, carrier, trackingAndRecipient) ==
  IF IsNoTracking(trackingAndRecipient)
    THEN NoTracking(apartment, carrier, trackingAndRecipient,
                    NoTrackMatch(trackingAndRecipient))
    ELSE NormalTracking(apartment, carrier,
                        SplitOnSpaces(trackingAndRecipient, 1))

CarrierParts(apartment, carrierTrackingField, parts) ==
  IF Len(parts) < 3
    THEN LineError("Invalid carrier/tracking format in \"" \o carrierTrackingField
           \o "\" - expected \"CARRIER - #REF - TRACKING RECIPIENT\" (found "
           \o ToString(Len(parts)) \o " parts, need 3)")
    ELSE TrackingAndRecipient(apartment, Trim(parts[1]), Trim(parts[3]))

\* from the carrier/tracking field to the package
ParseCarrierTracking(apartment, carrierTrackingField) ==
  CarrierParts(apartment, carrierTrackingField,
               Split(carrierTrackingField, " - "))

ParseSegmented(seg) ==
  IF seg.kind = "error" THEN seg
  ELSE ParseCarrierTracking(seg.apartment, seg.carrierTrackingField)

\* the body of the try block up to the duplicate check
ParseLine(trimmedLine) == ParseSegmented(SegmentLine(trimmedLine))

\* errors.push({ lineNumber, line: trimmedLine, reason })
PushError(acc, lineNumber, trimmedLine, reason) ==
  [acc EXCEPT !.errors = Append(@, [lineNumber |-> lineNumber,
                                    line |-> trimmedLine,
                                    reason |-> reason])]

\* variant: seenCombos.add(comboKey) is missing
PushPackage_NotSeen(acc, r) ==
  [acc EXCEPT
     !.packages = Append(@,
        [id |-> PackageIds[Len(acc.packages) + 1],
         apartment |-> r.apartment,
         trackingLast4 |-> r.trackingLast4,
         carrier |-> r.carrier,
         recipient |-> r.recipient,
         fullTracking |-> r.fullTracking,
         status |-> "pending"])]

\* seenCombos.add(comboKey); packages.push(pkg)
PushPackage(acc, r) ==
  [acc EXCEPT
     !.seenCombos = @ \cup {comboKey(r.apartment, r.trackingLast4)},
     !.packages = Append(@,
        [id |-> PackageIds[Len(acc.packages) + 1],
         apartment |-> r.apartment,
         trackingLast4 |-> r.trackingLast4,
         carrier |-> r.carrier,
         recipient |-> r.recipient,
         fullTracking |-> r.fullTracking,
         status |-> "pending"])]

\* variant: a line of a key already seen is skipped without an error
RecordOutcome_SkipsDuplicate(acc, lineNumber, trimmedLine, r) ==
  IF r.kind = "error"
    THEN PushError(acc, lineNumber, trimmedLine, r.reason)
  ELSE IF comboKey(r.apartment, r.trackingLast4) \in acc.seenCombos
    THEN acc
  ELSE PushPackage(acc, r)

\* the outcome r of a non-blank line enters the accumulators
RecordOutcome(acc, lineNumber, trimmedLine, r) ==
  IF r.kind = "error"
    THEN PushError(acc, lineNumber, trimmedLine, r.reason)
  ELSE IF comboKey(r.apartment, r.trackingLast4) \in acc.seenCombos
    THEN PushError(acc, lineNumber, trimmedLine,
                   "Duplicate entry (" \o r.apartment \o " + "
                     \o r.trackingLast4 \o " already exists)")
  ELSE PushPackage(acc, r)

ProcessTrimmedLine(acc, lineNumber, trimmedLine) ==
  IF trimmedLine = "" THEN acc
  ELSE RecordOutcome(acc, lineNumber, trimmedLine, ParseLine(trimmedLine))

\* One iteration of lines.forEach on acc = [packages, errors, seenCombos]
ProcessLine(acc, line, lineNumber) ==
  ProcessTrimmedLine(acc, lineNumber, Trim(line))

\* the accumulators after the first n lines
RECURSIVE ParseState(_, _)
ParseState(lines, n) ==
  IF n = 0 THEN [packages |-> <<>>, errors |-> <<>>, seenCombos |-> {}]
  ELSE ProcessLine(ParseState(lines, n - 1), lines[n], n)

ParseAll(lines) == ParseState(lines, Len(lines))

\* return { packages, errors }
Returns(acc) == [packages |-> acc.packages, errors |-> acc.errors]

parsePackageList(text) == Returns(ParseAll(Split(text, "\n")))

\* --------------------------------------------------- the parser's inputs
\* lines as they are pasted from the package management system
ManifestLines ==
  { "",
    " \t ",
    "C01K Unit\tACME\tUPS - #1 - 1Z9679 BOB\t3901",
    " c01k Unit ACME LLC UPS - #2 - 9679 AL",
    "N02B Unit  ACME  UPS - R7 - 12345678 AL",
    "C01K Unit\tACME",
    "C01K\tACME\tFEDEX GROUND - #1 - 1Z9679 BOB",
    "N02B Unit ACME\tUPS - #2 - 5678 AL",
    "N02B Unit ACME USPS - #3 - NO TRK -- AL",
    "Invalid\tACME\tUPS - #1 - 123 BOB" }

MaxLines == 3

\* lines.join('\n')
RECURSIVE JoinLines(_)
JoinLines(lines) ==
  IF lines = <<>> THEN ""
  ELSE IF Len(lines) = 1 THEN lines[1]
  ELSE lines[1] \o "\n" \o JoinLines(Tail(lines))

RawTexts ==
  UNION {{JoinLines(f) : f \in [1..n -> ManifestLines]} : n \in 0..MaxLines}

ParseInit ==
  /\ SessionFresh
  /\ saver = Mounted
  /\ packages = <<>>
  /\ detections = <<>>
  /\ updatedPackages = <<>>
  /\ updatedDetections = <<>>
  /\ single = Null
  /\ singleOf = Null
  /\ argsAfter = Null
  /\ mpc = "parser"
  /\ rawText \in RawTexts
  /\ parseResult = Null

\* parsePackageList(rawText)
Parse ==
  /\ mpc = "parser"
  /\ parseResult' = parsePackageList(rawText)
  /\ mpc' = "parsed"
  /\ UNCHANGED <<packages, detections, updatedPackages, updatedDetections,
                 single, singleOf, argsAfter, rawText, svars, saver>>

SpecParse == ParseInit /\ [][Parse]_vars

\* ------------------------------------------- one manifest entry per line
\* An entry is put together from its parts: the apartment and the business
\* name in the tab format or in the single-space format, the carrier, the
\* reference number, the tracking number with the recipient, and the columns
\* behind them.
EntryHeads == {"C01K Unit\tACME\t", "N02B Unit ACME "}
EntryCarriers == {"UPS", "USPS"}
EntryRefs == {"", " - #1", " - #22"}
EntryTails ==
  { "",
    " - 1Z9679 BOB",
    " - 1Z9679 BOB - JR",
    " - 123 BOB",
    " - 1Z9679",
    " - NO TRACKING",
    " - NO TRK",
    " - no tracking number",
    " - NO TRACKING NUMBER -- AL",
    " - NO TRK AL",
    " - No Tracking -- Al Bo" }
EntryTrailers == {"", "\t3901"}

EntryLines ==
  {h \o c \o r \o t \o e :
     h \in EntryHeads, c \in EntryCarriers, r \in EntryRefs,
     t \in EntryTails, e \in EntryTrailers}

\* entries as the package management system prints them on one line, back to
\* back
ContinuousEntries ==
  { "N01C Unit ACME USPS - #1 - 1Z3530 AL 3801",
    "N01D Unit ACME USPS - #2 - NO TRACKING NUMBER -- BO 3801",
    "N01E Unit ACME UPS - #3 - 1Z3344 CY 3801" }

MaxEntries == 2

\* sequences of different entries
EntrySequences ==
  UNION {{f \in [1..n -> ContinuousEntries] :
            \A i, j \in 1..n : f[i] = f[j] => i = j} : n \in 2..MaxEntries}

ContinuousTexts == {Join(f) : f \in EntrySequences}

EntryInit ==
  /\ SessionFresh
  /\ saver = Mounted
  /\ packages = <<>>
  /\ detections = <<>>
  /\ updatedPackages = <<>>
  /\ updatedDetections = <<>>
  /\ single = Null
  /\ singleOf = Null
  /\ argsAfter = Null
  /\ mpc = "parser"
  /\ rawText \in EntryLines \cup ContinuousTexts
  /\ parseResult = Null

SpecEntry == EntryInit /\ [][Parse]_vars

\* ------------------------------------------------- claims on matchDetections
\* a matchDetections call has returned: its arguments and its result are held
Returned == mpc = "matched" \/ mpc = "rematched"

Readable(d) == d.parsedApartment # Null /\ d.parsedLast4 # Null

SamePair(d, e) ==
  d.parsedApartment = e.parsedApartment /\ d.parsedLast4 = e.parsedLast4

HasPair(pkg, d) ==
  pkg.apartment = d.parsedApartment /\ pkg.trackingLast4 = d.parsedLast4

\* the loop's states after k - 1 detections, then after detection k
NextStep(t, k) == Append(t, ProcessDetection(t[k], k))

RECURSIVE LoopSteps(_, _, _)
LoopSteps(pkgs, dets, k) ==
  IF k = 0
    THEN <<LoopState(pkgs, dets, 0)>>
    ELSE NextStep(LoopSteps(pkgs, dets, k - 1), k)

\* the loop's states of the call on packages and detections, one after the
\* other: Steps[k + 1] is LoopState(packages, detections, k)
Steps == LoopSteps(packages, detections, Len(detections))

\* the state of the loop before / after detection k, in the states t
Before(t, k) == t[k]
After(t, k) == t[k + 1]

\* C1 (as claimed): matching the result of a match again changes no package
\* status and no detection status; a matched detection stays matched.
C1_Idempotent ==
  mpc = "rematched" =>
    /\ \A i \in DOMAIN packages :
         updatedPackages[i].status = packages[i].status
    /\ \A k \in DOMAIN detections :
         updatedDetections[k].status = detections[k].status

\* C2: in the result of a call, every matched detection names exactly one
\* package by id, that package is found, and its (apartment, trackingLast4)
\* equals the detection's (parsedApartment, parsedLast4).
C2_MatchedNamesFoundPackage ==
  Returned =>
    \A k \in DOMAIN updatedDetections :
      updatedDetections[k].status = "matched" =>
        LET d == updatedDetections[k]
            named == {i \in DOMAIN updatedPackages :
                        updatedPackages[i].id = d.matchedPackageId}
        IN  /\ Cardinality(named) = 1
            /\ \A i \in named :
                 /\ updatedPackages[i].status = "found"
                 /\ HasPair(updatedPackages[i], d)

C2_Witness ==
  /\ mpc = "matched"
  /\ Len(updatedPackages) = MaxPackages
  /\ \E k \in DOMAIN updatedDetections :
       /\ updatedDetections[k].status = "matched"
       /\ updatedDetections[k].matchedPackageId = updatedPackages[2].id

\* C3: in the result of a call no two matched detections carry the same
\* matchedPackageId.
C3_OneMatchedDetectionPerPackage ==
  Returned =>
    \A j, k \in DOMAIN updatedDetections :
      ( /\ j # k
        /\ updatedDetections[j].status = "matched"
        /\ updatedDetections[k].status = "matched" )
      => updatedDetections[j].matchedPackageId
           # updatedDetections[k].matchedPackageId

\* two detections of one combo, the first of them matched
C3_Witness ==
  /\ mpc = "matched"
  /\ \E j, k \in DOMAIN updatedDetections :
       /\ j < k
       /\ SamePair(detections[j], detections[k])
       /\ updatedDetections[j].status = "matched"

\* C4 (as claimed): rematchSingleDetection gives the detection the status and
\* the matchedPackageId that matchDetections gives it in the batch.
C4_SingleAgreesWithBatch ==
  mpc = "single" =>
    /\ single.updatedDetection.status = updatedDetections[singleOf].status
    /\ single.updatedDetection.matchedPackageId
         = updatedDetections[singleOf].matchedPackageId

\* C7 (as claimed): among detections of one readable combo the first wins the
\* match and every later one is duplicate, even if no package carries the
\* combo.
C7_LaterOnesDuplicateEvenWithoutPackage ==
  mpc = "matched" =>
    \A j, k \in DOMAIN detections :
      ( /\ j < k
        /\ Readable(detections[j])
        /\ SamePair(detections[j], detections[k])
        /\ \/ updatedDetections[j].status = "matched"
           \/ \A i \in DOMAIN packages : ~HasPair(packages[i], detections[j]) )
      => updatedDetections[k].status = "duplicate"

\* C7 (amended): among detections of one readable combo, when the first is
\* matched every later one is duplicate; when no package carries the combo
\* none of them is matched: each is orphan, or duplicate where the key is
\* already claimed.
C7_FirstWins ==
  LET t == Steps
  IN  Returned =>
        \A j, k \in DOMAIN detections :
          ( /\ j < k
            /\ Readable(detections[j])
            /\ SamePair(detections[j], detections[k]) )
          => /\ updatedDetections[j].status = "matched"
                  => updatedDetections[k].status = "duplicate"
             /\ (\A i \in DOMAIN packages : ~HasPair(packages[i], detections[j]))
                  => /\ updatedDetections[j].status \in {"orphan", "duplicate"}
                     /\ updatedDetections[k].status \in {"orphan", "duplicate"}
                     /\ updatedDetections[k].status = "duplicate"
                          <=> comboKey(detections[k].parsedApartment,
                                       detections[k].parsedLast4) \in Before(t, k).combos

\* the first of two detections of a combo is matched to a package that was
\* pending when the call began
C7_Witness ==
  /\ mpc = "matched"
  /\ \E j, k \in DOMAIN detections :
       /\ j < k
       /\ SamePair(detections[j], detections[k])
       /\ updatedDetections[j].status = "matched"
       /\ updatedDetections[k].status = "duplicate"
       /\ \A i \in DOMAIN packages : ~IsClaiming(packages[i])

\* C8: a package whose status differs between argument and result was
\* pending, is found, and is the matchedPackageId of a detection the call
\* classified matched; no other package status changes.
C8_OnlyPendingToFound ==
  Returned =>
    /\ Len(updatedPackages) = Len(packages)
    /\ \A i \in DOMAIN packages :
         updatedPackages[i].status # packages[i].status =>
           /\ packages[i].status = "pending"
           /\ updatedPackages[i].status = "found"
           /\ \E k \in DOMAIN updatedDetections :
                /\ updatedDetections[k].status = "matched"
                /\ updatedDetections[k].matchedPackageId = packages[i].id

\* one package changed beside a not_found package of the same combo
C8_Witness ==
  /\ mpc = "matched"
  /\ \E i, j \in DOMAIN packages :
       /\ updatedPackages[i].status # packages[i].status
       /\ packages[j].status = "not_found"
       /\ packages[j].trackingLast4 = packages[i].trackingLast4

\* C9: a detection with a readable, unclaimed combo that equals the key of
\* exactly one pending package is matched, carries that package's id, the
\* package becomes found, and the combo is claimed for the rest of the call
\* (every later detection of the combo is duplicate).
C9_ExactlyOnePendingMatches ==
  LET t == Steps
  IN  Returned =>
        \A k \in DOMAIN detections :
          LET d == detections[k]
              key == comboKey(d.parsedApartment, d.parsedLast4)
              pend == {i \in DOMAIN packages :
                         Before(t, k).pkgs[i].status = "pending"
                           /\ HasPair(packages[i], d)}
          IN  ( /\ Readable(d)
                /\ key \notin Before(t, k).combos
                /\ Cardinality(pend) = 1 )
              => \A i \in pend :
                   /\ updatedDetections[k].status = "matched"
                   /\ updatedDetections[k].matchedPackageId = packages[i].id
                   /\ After(t, k).pkgs[i].status = "found"
                   /\ updatedPackages[i].status = "found"
                   /\ \A n \in k..Len(detections) : key \in After(t, n).combos
                   /\ \A n \in (k + 1)..Len(detections) :
                        SamePair(detections[n], d)
                          => updatedDetections[n].status = "duplicate"

\* such a detection, with a later detection of the same combo
C9_Witness ==
  LET t == Steps
  IN  /\ mpc = "matched"
      /\ \E k \in DOMAIN detections :
           /\ k < Len(detections)
           /\ Readable(detections[k])
           /\ comboKey(detections[k].parsedApartment, detections[k].parsedLast4)
                \notin Before(t, k).combos
           /\ Cardinality({i \in DOMAIN packages :
                             Before(t, k).pkgs[i].status = "pending"
                               /\ HasPair(packages[i], detections[k])}) = 1
           /\ SamePair(detections[k + 1], detections[k])

\* C10: a detection whose readable combo equals the (apartment,
\* trackingLast4) of a package that enters the call found or verified is
\* duplicate and changes no package status, also when a pending package of
\* the same combo exists.
C10_ClaimedComboIsDuplicate ==
  LET t == Steps
  IN  Returned =>
        \A k \in DOMAIN detections :
          ( /\ Readable(detections[k])
            /\ \E i \in DOMAIN packages :
                 /\ packages[i].status \in {"found", "verified"}
                 /\ HasPair(packages[i], detections[k]) )
          => /\ updatedDetections[k].status = "duplicate"
             /\ \A i \in DOMAIN packages :
                  After(t, k).pkgs[i].status = Before(t, k).pkgs[i].status

\* a verified package and a pending package of the detection's combo
C10_Witness ==
  /\ mpc = "matched"
  /\ \E k \in DOMAIN detections : \E i, j \in DOMAIN packages :
       /\ Readable(detections[k])
       /\ packages[i].status = "verified"
       /\ HasPair(packages[i], detections[k])
       /\ packages[j].status = "pending"
       /\ HasPair(packages[j], detections[k])
       /\ updatedDetections[k].status = "duplicate"

\* the pending packages, before detection k is processed, that carry its pair
PendingFor(t, k) ==
  {i \in DOMAIN packages :
     Before(t, k).pkgs[i].status = "pending" /\ HasPair(packages[i], detections[k])}

Unclaimed(t, k) ==
  comboKey(detections[k].parsedApartment, detections[k].parsedLast4)
    \notin Before(t, k).combos

\* processing detection k changes no package status
NoStatusChangeAt(t, k) ==
  \A i \in DOMAIN packages : After(t, k).pkgs[i].status = Before(t, k).pkgs[i].status

\* C11: a detection whose readable, unclaimed combo equals the key of more
\* than one pending package is ambiguous; it changes no package status, its
\* combo is not claimed, and every later detection of the combo in the call
\* is ambiguous too.
C11_AmbiguityPicksNoWinner ==
  LET t == Steps
  IN  Returned =>
        \A k \in DOMAIN detections :
          ( /\ Readable(detections[k])
            /\ Unclaimed(t, k)
            /\ Cardinality(PendingFor(t, k)) > 1 )
          => /\ updatedDetections[k].status = "ambiguous"
             /\ updatedDetections[k].matchedPackageId = detections[k].matchedPackageId
             /\ NoStatusChangeAt(t, k)
             /\ After(t, k).combos = Before(t, k).combos
             /\ \A n \in (k + 1)..Len(detections) :
                  SamePair(detections[n], detections[k])
                    => updatedDetections[n].status = "ambiguous"

\* two pending packages of one combo and two detections of it
C11_Witness ==
  LET t == Steps
  IN  /\ mpc = "matched"
      /\ \E k \in DOMAIN detections :
           /\ k < Len(detections)
           /\ Readable(detections[k])
           /\ Unclaimed(t, k)
           /\ Cardinality(PendingFor(t, k)) > 1
           /\ SamePair(detections[k + 1], detections[k])
           /\ updatedDetections[k + 1].status = "ambiguous"

\* C12: a detection whose readable, unclaimed combo equals the key of no
\* pending package is orphan and changes no package status; so with an empty
\* package list, and with packages equal to it on one field only.
C12_NoPendingPackageIsOrphan ==
  LET t == Steps
  IN  Returned =>
        \A k \in DOMAIN detections :
          ( /\ Readable(detections[k])
            /\ Unclaimed(t, k)
            /\ PendingFor(t, k) = {} )
          => /\ updatedDetections[k].status = "orphan"
             /\ NoStatusChangeAt(t, k)
             /\ After(t, k).combos = Before(t, k).combos

\* an orphan beside a pending package of its apartment and another tail, and
\* an orphan of an empty package list
C12_Witness ==
  LET t == Steps
  IN  /\ mpc = "matched"
      /\ \E k \in DOMAIN detections :
           /\ updatedDetections[k].status = "orphan"
           /\ \/ packages = <<>>
              \/ \E i \in DOMAIN packages :
                   /\ packages[i].status = "pending"
                   /\ packages[i].apartment = detections[k].parsedApartment
                   /\ packages[i].trackingLast4 # detections[k].parsedLast4
                   /\ Before(t, k).pkgs[i].status = "pending"

\* the list without its k-th element
RemoveAt(seq, k) ==
  [n \in 1..(Len(seq) - 1) |-> IF n < k THEN seq[n] ELSE seq[n + 1]]

Unset == "<unset>"
WithoutStatus(dets) == [k \in DOMAIN dets |-> [dets[k] EXCEPT !.status = Unset]]

\* C14: for any package list and detection list, the empty ones included,
\* matchDetections returns, and every detection of the result has one of
\* the five statuses, written by the call itself: also when the detection
\* enters with no status.
C14_EveryDetectionGetsAStatus ==
  Returned =>
    LET r == matchDetections(packages, WithoutStatus(detections))
    IN  /\ Len(updatedDetections) = Len(detections)
        /\ Len(r.updatedDetections) = Len(detections)
        /\ \A k \in DOMAIN detections :
             /\ updatedDetections[k].status \in DetectionStatus
             /\ r.updatedDetections[k].status \in DetectionStatus

\* a call whose result holds an orphan and an unreadable detection
C14_Witness ==
  /\ mpc = "matched"
  /\ \E j, k \in DOMAIN updatedDetections :
       /\ updatedDetections[j].status = "orphan"
       /\ updatedDetections[k].status = "unreadable"

\* C15: matchDetections does not change its arguments: after the call the
\* caller's package array and detection array hold the same objects in the
\* same order, and every field of them (status, matchedPackageId, notes,
\* boundingBox among them) has the value it had before the call.
C15_ArgumentsNotMutated ==
  Returned =>
    /\ argsAfter.packages = packages
    /\ argsAfter.detections = detections

\* a call that set a package found and wrote a note to a detection
C15_Witness ==
  /\ mpc = "matched"
  /\ \E i \in DOMAIN packages :
       packages[i].status = "pending" /\ updatedPackages[i].status = "found"
  /\ \E k \in DOMAIN detections :
       updatedDetections[k].notes # detections[k].notes

\* C16: the result holds the records of the input: as many packages and
\* detections, with the same ids in the same order, and a package differs
\* from its input in status at most, a detection in status, matchedPackageId
\* and notes at most.
C16_SameRecordsReturned ==
  Returned =>
    /\ Len(updatedPackages) = Len(packages)
    /\ Len(updatedDetections) = Len(detections)
    /\ \A i \in DOMAIN packages :
         /\ updatedPackages[i].id = packages[i].id
         /\ [updatedPackages[i] EXCEPT !.status = packages[i].status]
              = packages[i]
    /\ \A k \in DOMAIN detections :
         /\ updatedDetections[k].id = detections[k].id
         /\ [updatedDetections[k] EXCEPT
               !.status = detections[k].status,
               !.matchedPackageId = detections[k].matchedPackageId,
               !.notes = detections[k].notes] = detections[k]

\* a call of two packages and two detections in which a package's status, a
\* detection's matchedPackageId and a detection's notes changed
C16_Witness ==
  /\ mpc = "matched"
  /\ Len(packages) = MaxPackages
  /\ Len(detections) = MaxDetections
  /\ \E i \in DOMAIN packages : updatedPackages[i].status # packages[i].status
  /\ \E k \in DOMAIN detections :
       updatedDetections[k].matchedPackageId # detections[k].matchedPackageId
  /\ \E k \in DOMAIN detections :
       updatedDetections[k].notes # detections[k].notes

\* ------------------------------------------------------ claims on the session
DetectionIdsIn(s) == {s.detections[i].id : i \in DOMAIN s.detections}
PhotoIdsIn(s) == {s.photos[i].id : i \in DOMAIN s.photos}

\* C5 (as claimed): once every started processPhoto run has finished, the
\* session's detection list holds every detection a run produced (its photo
\* not deleted) and every package a run set to found is still found.
C5_NoLostUpdate ==
  (\A r \in DOMAIN runs : runs[r].pc \in {"idle", "done", "failed"})
  => \A r \in DOMAIN runs :
       /\ PhotoIds[r] \in PhotoIdsIn(state)
            => runs[r].produced \subseteq DetectionIdsIn(state)
       /\ \A i \in DOMAIN state.packages :
            state.packages[i].id \in runs[r].found
              => state.packages[i].status = "found"

\* C6 (as claimed): every detection in state.detections has a photoId that
\* names a photo present in state.photos.
C6_NoOrphanedDetections ==
  \A i \in DOMAIN state.detections :
    state.detections[i].photoId \in PhotoIdsIn(state)

\* the text of a notes field
NotesText(n) == IF n = Null THEN "" ELSE n

StartsWith(str, prefix) ==
  Len(prefix) <= Len(str) /\ SubSeq(str, 1, Len(prefix)) = prefix

\* C17 (as claimed): a step of the review card (save of a correction,
\* mark-as-error, confirm-correct, each with the matchDetections call it
\* makes) leaves every detection with notes that start with the notes it
\* had before the step.
C17_NotesAppendOnly ==
  [][edits' # edits =>
       \A i \in DOMAIN state.detections : \A j \in DOMAIN state'.detections :
         state.detections[i].id = state'.detections[j].id
           => StartsWith(NotesText(state'.detections[j].notes),
                         NotesText(state.detections[i].notes))]_vars

\* ---------------------------------------------- claims on parsePackageList
\* a parsePackageList call has returned: its argument and its result are held
Parsed == mpc = "parsed"

\* the lines of the input
InputLines == Split(rawText, "\n")

IsBlank(line) == \A i \in 1..Len(line) : CharAt(line, i) \in Whitespace

\* the positions of the lines that are not blank
NonBlank(lines) == {n \in DOMAIN lines : ~IsBlank(lines[n])}

\* the accumulators before the first line, then after each line
NextAccumulators(acc, lines, n) ==
  Append(acc, ProcessLine(acc[n], lines[n], n))

RECURSIVE Accumulators(_, _)
Accumulators(lines, n) ==
  IF n = 0
    THEN <<ParseState(lines, 0)>>
    ELSE NextAccumulators(Accumulators(lines, n - 1), lines, n)

\* what each line parses to on its own
RECURSIVE Outcomes(_, _)
Outcomes(lines, n) ==
  IF n = 0 THEN <<>>
  ELSE Append(Outcomes(lines, n - 1), ParseLine(Trim(lines[n])))

\* what line n added to the packages and to the errors
AddedBy(acc, n) ==
  (Len(acc[n + 1].packages) + Len(acc[n + 1].errors))
  - (Len(acc[n].packages) + Len(acc[n].errors))

SameKey(a, b) ==
  /\ a.kind = "package"
  /\ b.kind = "package"
  /\ a.apartment = b.apartment
  /\ a.trackingLast4 = b.trackingLast4

\* line n, which parses to the package own, is in the result as the rule
\* says: an error when an earlier line has its pair, its package otherwise
FirstOfKeyWins(out, acc, nonBlank, n, own) ==
  IF \E m \in nonBlank : m < n /\ SameKey(out[m], own)
    THEN /\ \E e \in DOMAIN parseResult.errors :
              /\ parseResult.errors[e].lineNumber = n
              /\ StartsWith(parseResult.errors[e].reason, "Duplicate entry")
         /\ Len(acc[n + 1].packages) = Len(acc[n].packages)
    ELSE /\ \A e \in DOMAIN parseResult.errors :
              parseResult.errors[e].lineNumber # n
         /\ \E i \in DOMAIN parseResult.packages :
              /\ parseResult.packages[i].apartment = own.apartment
              /\ parseResult.packages[i].fullTracking = own.fullTracking
              /\ parseResult.packages[i].carrier = own.carrier

\* C19: no two returned packages share (apartment, trackingLast4); the first
\* line that parses to a pair yields its package, and every later line of the
\* pair yields a 'Duplicate entry' error and no package, whatever lines lie
\* between.
C19_FirstLineOfAKeyWins ==
  LET lines == InputLines
      acc == Accumulators(lines, Len(lines))
      out == Outcomes(lines, Len(lines))
      nonBlank == NonBlank(lines)
  IN  Parsed =>
        /\ \A i, j \in DOMAIN parseResult.packages :
             ( /\ parseResult.packages[i].apartment
                    = parseResult.packages[j].apartment
               /\ parseResult.packages[i].trackingLast4
                    = parseResult.packages[j].trackingLast4 )
             => i = j
        /\ \A n \in nonBlank :
             out[n].kind = "package"
               => FirstOfKeyWins(out, acc, nonBlank, n, out[n])

\* lines 1 and 3 of one pair with a malformed line between them
C19_Witness ==
  LET out == Outcomes(InputLines, Len(InputLines))
  IN  /\ Parsed
      /\ Len(out) = 3
      /\ SameKey(out[1], out[3])
      /\ out[2].kind = "error"
      /\ Len(parseResult.packages) = 1
      /\ Len(parseResult.errors) = 2
      /\ parseResult.errors[2].lineNumber = 3

\* C20 (as claimed): a line that holds a tab is segmented by its tabs also
\* when it holds the ' - #digits' anchor: with fewer than 3 tab-separated
\* fields it is an insufficient-fields error, and the carrier of its package
\* is the whole text before the first ' - ' of the third field.
C20_TabsBeforeAnchor ==
  ( /\ Parsed
    /\ IndexOf(rawText, "\n") = 0
    /\ IndexOf(Trim(rawText), "\t") # 0 )
  => LET fields == TrimEach(Split(Trim(rawText), "\t"))
     IN  IF Len(fields) < 3
           THEN /\ parseResult.packages = <<>>
                /\ Len(parseResult.errors) = 1
                /\ StartsWith(parseResult.errors[1].reason,
                              "Insufficient fields")
           ELSE \A i \in DOMAIN parseResult.packages :
                  parseResult.packages[i].carrier
                    = Trim(Split(fields[3], " - ")[1])

\* the input is one line
OneLine == IndexOf(rawText, "\n") = 0

\* C21 (as claimed): a carrier/tracking field that does not split on ' - '
\* into exactly 3 segments, fewer or more, is rejected with an invalid
\* carrier/tracking format error and gives no package.
C21_ExactlyThreeSegments ==
  LET seg == SegmentLine(Trim(rawText))
  IN  ( /\ Parsed
        /\ OneLine
        /\ ~IsBlank(rawText)
        /\ seg.kind = "fields"
        /\ Len(Split(seg.carrierTrackingField, " - ")) # 3 )
      => /\ parseResult.packages = <<>>
         /\ Len(parseResult.errors) = 1
         /\ StartsWith(parseResult.errors[1].reason,
                       "Invalid carrier/tracking format")

\* the no-tracking phrases, the longest first
NoTrackingPhrases == <<"NO TRACKING NUMBER", "NO TRACKING", "NO TRK">>

\* str begins with the phrase, any case, and the phrase ends there
BeginsWithPhrase(str, phrase) ==
  /\ toUpperCase(Slice(str, 1, Len(phrase))) = phrase
  /\ \/ Len(str) = Len(phrase)
     \/ IsSpace(CharAt(str, Len(phrase) + 1))
     \/ CharAt(str, Len(phrase) + 1) = "-"

\* the length of the longest phrase str begins with, 0 when there is none
PhraseLength(str) ==
  IF \E n \in DOMAIN NoTrackingPhrases :
       BeginsWithPhrase(str, NoTrackingPhrases[n])
    THEN Len(NoTrackingPhrases[
           CHOOSE n \in DOMAIN NoTrackingPhrases :
             /\ BeginsWithPhrase(str, NoTrackingPhrases[n])
             /\ \A m \in 1..(n - 1) :
                  ~BeginsWithPhrase(str, NoTrackingPhrases[m])])
    ELSE 0

\* the text behind the phrase and its dashes; the placeholder when there is
\* none
RecipientBehind(str, n) ==
  IF Trim(From(str, SkipDashSpace(str, n + 1))) = ""
    THEN "UNKNOWN"
    ELSE Trim(From(str, SkipDashSpace(str, n + 1)))

NoTrackingPackage(segment, n) ==
  /\ parseResult.errors = <<>>
  /\ Len(parseResult.packages) = 1
  /\ parseResult.packages[1].trackingLast4 = "NONE"
  /\ parseResult.packages[1].fullTracking = Slice(segment, 1, n)
  /\ parseResult.packages[1].recipient = RecipientBehind(segment, n)

NoTrackingSegment(segment) ==
  PhraseLength(segment) # 0 => NoTrackingPackage(segment, PhraseLength(segment))

\* C22 (as claimed): a line whose trailing segment is a no-tracking phrase
\* (NO TRACKING, NO TRK, NO TRACKING NUMBER, any case) gives a package with
\* trackingLast4 'NONE' and the whole phrase as fullTracking; the recipient
\* is the text behind the phrase and its dashes, 'UNKNOWN' when there is
\* none; no error is reported.
C22_NoTrackingPhrase ==
  LET seg == SegmentLine(Trim(rawText))
      parts == Split(seg.carrierTrackingField, " - ")
  IN  ( /\ Parsed
        /\ OneLine
        /\ ~IsBlank(rawText)
        /\ seg.kind = "fields"
        /\ Len(parts) = 3 )
      => NoTrackingSegment(Trim(parts[3]))

\* package i of the result is the package of entry i
EntryPackage(i, own) ==
  /\ own.kind = "package"
  /\ parseResult.packages[i].apartment = own.apartment
  /\ parseResult.packages[i].carrier = own.carrier
  /\ parseResult.packages[i].trackingLast4 = own.trackingLast4

\* C23 (as claimed): a line that holds several entries back to back, each
\* with its apartment code and its ' - #digits - ' anchor, gives one package
\* per entry, in order, each with its own apartment, carrier and
\* trackingLast4, and no error.
C23_ContinuousLine ==
  Parsed =>
    \A f \in EntrySequences :
      rawText = Join(f)
        => /\ parseResult.errors = <<>>
           /\ Len(parseResult.packages) = Len(f)
           /\ \A i \in DOMAIN f : EntryPackage(i, ParseLine(Trim(f[i])))

\* ------------------------------------------ more claims on the session
\* the detections of the flattened list, and those of the photos' lists
FlatDetections(s) == {s.detections[i] : i \in DOMAIN s.detections}

PhotoDetections(s) ==
  UNION {{s.photos[i].detections[j] : j \in DOMAIN s.photos[i].detections} :
           i \in DOMAIN s.photos}

\* C24 (as claimed): in every reachable session state the flattened
\* state.detections holds exactly the detections of the photos' detections
\* lists, with the same ids and the same field values.
C24_StoresAgree ==
  mpc = "session" => FlatDetections(state) = PhotoDetections(state)

\* C29 (as claimed): in every reachable session state each detection with
\* status matched has a matchedPackageId that names a package of
\* state.packages whose status is found or verified.
C29_MatchedNamesLivePackage ==
  mpc = "session" =>
    \A k \in DOMAIN state.detections :
      state.detections[k].status = "matched"
        => \E i \in DOMAIN state.packages :
             /\ state.packages[i].id = state.detections[k].matchedPackageId
             /\ IsClaiming(state.packages[i])

\* -------------------------------------------------- claims on the auto-save
\* a step that calls saveSession
SaveRuns == saver'.saves # saver.saves

\* a step that changes the session state
StateChanges == saver'.changes # saver.changes

C26_ReferenceOnlyWhenMatched ==
  Returned =>
    \A k \in DOMAIN updatedDetections :
      updatedDetections[k].matchedPackageId # Null
        => updatedDetections[k].status = "matched"

\* the orderings of n things
Orderings(n) == {f \in [1..n -> 1..n] : \A i, j \in 1..n : f[i] = f[j] => i = j}

Reordered(dets, f) == [k \in DOMAIN dets |-> dets[f[k]]]

\* the number of detections of a status
StatusCount(dets, status) ==
  Cardinality({k \in DOMAIN dets : dets[k].status = status})

\* a result gives every package the status, and every status the number of
\* detections, that the call on packages and detections gave
SameOutcome(result) ==
  /\ \A i \in DOMAIN packages :
       result.updatedPackages[i].status = updatedPackages[i].status
  /\ \A status \in DetectionStatus :
       StatusCount(result.updatedDetections, status)
         = StatusCount(updatedDetections, status)

\* C27 (as claimed): for any package list and any two orderings of one
\* detection list, matchDetections gives every package the same status and
\* every status the same number of detections.
C27_OrderIndependent ==
  mpc = "matched" =>
    \A f \in Orderings(Len(detections)) :
      SameOutcome(matchDetections(packages, Reordered(detections, f)))

\* the detections with the placeholder status useAIDetection creates them
\* with
Unmarked(dets) == [k \in DOMAIN dets |-> [dets[k] EXCEPT !.status = "matched"]]

SameStatuses(dets, others) ==
  \A k \in DOMAIN dets : dets[k].status = others[k].status

\* C28: the status a detection receives does not depend on the status it
\* entered with: the call returns the statuses that the call on the same
\* packages and the same detections with other input statuses returns, so a
\* status set by hand is recomputed.
C28_InputStatusIgnored ==
  mpc = "matched" =>
    SameStatuses(updatedDetections,
                 matchDetections(packages, Unmarked(detections)).updatedDetections)

\* a readable detection marked unreadable by hand leaves matched, and one
\* that entered matched leaves duplicate
C28_Witness ==
  /\ mpc = "matched"
  /\ \E j, k \in DOMAIN detections :
       /\ detections[j].status = "unreadable"
       /\ updatedDetections[j].status = "matched"
       /\ detections[k].status = "matched"
       /\ updatedDetections[k].status = "duplicate"

\* the detections of a list that are not of photo p, in the list's order
RECURSIVE OfOtherPhotos(_, _)
OfOtherPhotos(dets, p) ==
  IF dets = <<>> THEN <<>>
  ELSE IF Head(dets).photoId = p THEN OfOtherPhotos(Tail(dets), p)
       ELSE <<Head(dets)>> \o OfOtherPhotos(Tail(dets), p)

\* the sequence without its i-th element
WithoutIndex(seq, i) == SubSeq(seq, 1, i - 1) \o SubSeq(seq, i + 1, Len(seq))

\* C30: a deletion removes one photo of the session and exactly the
\* detections whose photoId is that photo; every other photo and every other
\* detection is kept as it was and in its place, every package is unchanged,
\* and a package a deleted matched detection names keeps its status (found).
C30_DeleteRemovesOnlyThePhoto ==
  [][state' # state =>
       \E i \in DOMAIN state.photos :
         LET p == state.photos[i].id
         IN  /\ state'.photos = WithoutIndex(state.photos, i)
             /\ p \notin PhotoIdsIn(state')
             /\ state'.detections = OfOtherPhotos(state.detections, p)
             /\ state'.packages = state.packages
             /\ \A k \in DOMAIN state.detections :
                  /\ state.detections[k].photoId = p
                  /\ state.detections[k].status = "matched"
                  => \A j \in DOMAIN state.packages :
                       state.packages[j].id = state.detections[k].matchedPackageId
                         => /\ state.packages[j].status = "found"
                            /\ state'.packages[j].status = "found"]_vars

\* C30 witness: a processed photo that turned a package found has been
\* deleted; the package is still found and no detection of the session
\* names it any more.
C30_Witness ==
  \E r \in DOMAIN runs :
    /\ runs[r].pc = "done"
    /\ PhotoIds[r] \notin PhotoIdsIn(state)
    /\ runs[r].found # {}
    /\ \A id \in runs[r].found :
         /\ \E j \in DOMAIN state.packages :
              /\ state.packages[j].id = id
              /\ state.packages[j].status = "found"
         /\ \A k \in DOMAIN state.detections :
              state.detections[k].matchedPackageId # id

====
